---- MODULE Spec2Model ----
(***************************************************************************)
(* Model of iotfunctions/anomaly.py: the three per-entity windowed        *)
(* scoring transformers NoDataAnomalyScore, SpectralAnomalyScore and      *)
(* KMeansAnomalyScore.                                                     *)
(*                                                                         *)
(* A table (pandas DataFrame with an (entity, timestamp) MultiIndex) is a *)
(* sequence of rows in table order; a row is [id, ts, cols] with cols a   *)
(* function from column names to cells.  Timestamps and timedeltas are    *)
(* integers counted in ticks (Second ticks make one second); a timestamp  *)
(* is counted from midnight of its day, which is where pandas anchors the *)
(* resampling grid.                                                        *)
(*                                                                         *)
(* The floating point results of the extractors (spectrogram energy,      *)
(* z-score, CBLOF decision score) and of the linear interpolant are kept  *)
(* symbolic: a score cell records the integer position the interpolant    *)
(* was evaluated at and the signal array it was computed from.  Lengths,  *)
(* positions, timestamps and missing values are exact.                    *)
(***************************************************************************)
EXTENDS Integers, Sequences, FiniteSets, TLC

\* pc: where the caller stands: "new" (nothing constructed), "ready" (a
\*   transformer constructed), "loop" (inside execute, between iterations of
\*   the entity loop), "done" (execute returned), "normalized" (the Sampling
\*   Normalizer was applied alone), "extracted" (a Feature Extractor was
\*   applied alone)
\* given: the windowsize argument the constructor was given (history)
\* self: the transformer object; store: the table objects by name ("df" the
\*   caller's table, "df_copy" the copy); arg: the content of df when execute
\*   was called; df_copy: the object the name df_copy is bound to
\* entities, done: the entity loop and the number of its iterations done
\* entity .. zScoreII: the locals of the loop body as the last iteration
\*   left them (merged is dfe_orig after the merge)
\* slices, timesTS: the sliding windows of the clustering extractor and the
\*   centre positions of the features (fractions [n, d] = n / d)
\* sizes: temperature.size of every iteration so far (history)
VARIABLES pc, given, self, store, arg, df_copy, entities, done, entity, dfe_orig, dfe,
          mindelta, meandelta, temperature, nfeat, zscoreI, merged, zScoreII,
          sizes, slices, timesTS

locals == <<entity, dfe_orig, dfe, mindelta, meandelta, temperature, nfeat,
            zscoreI, merged, zScoreII, slices, timesTS>>

vars == <<pc, given, self, store, arg, df_copy, entities, done, locals, sizes>>

(* ------------------------------ bounds -------------------------------- *)

\* The entity identifiers that may appear in a table.
Entities == {1, 2}
\* A table has at most MaxRows rows.
MaxRows == 3
\* Multi-entity tables take their timestamps from 0..MaxTime seconds.
MaxTime == 1
\* Single-entity tables take their timestamps from 0..MaxWideTime seconds.
MaxWideTime == 8
\* windowsize arguments of the transformers that execute: 0..MaxWin.
MaxWin == 2
\* windowsize arguments of the constructors taken alone: MinWinArg..MaxWinArg.
MaxWinArg == 30
\* Timestamp sequences given to the Sampling Normalizer taken alone.
MaxStamps == 4
MaxStampTime == 6
\* The longest signal given to a Feature Extractor alone.
MaxSignal == 32

(* ----------------------------- constants ------------------------------ *)

\* Ticks per second: the resolution timedeltas are truncated to.
Second == 1000
\* pd.Timedelta('5 seconds')
DefaultSeconds == 5
\* windowsize // 12
OverlapDivisor == 12
\* self.step = 1
KMeansStep == 1

input_item == "input_item"
output_item == "output_item"

(* ------------------------------- cells -------------------------------- *)

NaN == [kind |-> "nan", v |-> 0, src |-> <<>>]

Num(x) == [kind |-> "num", v |-> x, src |-> <<>>]

isna(c) == c.kind = "nan"

Min(S) == CHOOSE x \in S : \A y \in S : x <= y

Max(S) == CHOOSE x \in S : \A y \in S : x >= y

Maximum(a, b) == IF a >= b THEN a ELSE b

RECURSIVE Sum(_)
Sum(s) == IF s = <<>> THEN 0 ELSE Head(s) + Sum(Tail(s))

Range(s) == {s[j] : j \in DOMAIN s}

(* ---------------------------- constructors ---------------------------- *)

\* self.windowsize = np.maximum(windowsize, 1)
WindowSize(windowsize) == Maximum(windowsize, 1)

WindowOverlapNoFloor(windowsize) ==
    IF windowsize = 1 THEN 0 ELSE windowsize - (windowsize \div OverlapDivisor)

\* if self.windowsize == 1: 0  else: windowsize - np.maximum(windowsize // 12, 1)
WindowOverlap(windowsize) ==
    IF windowsize = 1
    THEN 0
    ELSE windowsize - Maximum(windowsize \div OverlapDivisor, 1)

\* NoDataAnomalyScore.__init__ and SpectralAnomalyScore.__init__ (same body)
SpectralInit(cls, windowsize) ==
    [cls |-> cls,
     input_item |-> input_item,
     windowsize |-> WindowSize(windowsize),
     windowoverlap |-> WindowOverlap(WindowSize(windowsize)),
     frame_rate |-> 1,
     output_item |-> output_item]

\* KMeansAnomalyScore.__init__
KMeansInit(windowsize) ==
    [cls |-> "KMeans",
     input_item |-> input_item,
     windowsize |-> WindowSize(windowsize),
     step |-> KMeansStep,
     frame_rate |-> 1,
     output_item |-> output_item]

Classes == {"NoData", "Spectral", "KMeans"}

New(cls, windowsize) ==
    IF cls = "KMeans" THEN KMeansInit(windowsize) ELSE SpectralInit(cls, windowsize)

(* ------------------------------- tables ------------------------------- *)

Row(e, t, c) == [id |-> e, ts |-> t, cols |-> c]

RECURSIVE SetToSortedSeq(_)
SetToSortedSeq(S) ==
    IF S = {} THEN <<>> ELSE <<Min(S)>> \o SetToSortedSeq(S \ {Min(S)})

copy_alias(heap, ref) == [ref |-> ref, heap |-> heap]

\* df_copy = df.copy(): a new table object holding the content of df
copy(heap, ref) ==
    [ref |-> "df_copy",
     heap |-> [o \in DOMAIN heap \cup {"df_copy"} |->
                 IF o = "df_copy" THEN heap[ref] ELSE heap[o]]]

\* df_copy[self.output_item] = 0: the column is added, or overwritten
SetColumn(tbl, c, x) ==
    [p \in DOMAIN tbl |->
        Row(tbl[p].id, tbl[p].ts,
            [k \in DOMAIN tbl[p].cols \cup {c} |->
                IF k = c THEN x ELSE tbl[p].cols[k]])]

\* df_copy.sort_index(): the sorted table is a new object that is dropped;
\* df_copy keeps its row order
sort_index_discarded(tbl) == tbl

\* np.unique(df.index.levels[0])
unique_entities(tbl) == SetToSortedSeq({tbl[p].id : p \in DOMAIN tbl})

loc_all(tbl, e) == tbl

\* df_copy.loc[[entity]]: the rows of the e, in table order
loc(tbl, e) == SelectSeq(tbl, LAMBDA r : r.id = e)

\* .dropna(how='all'): rows whose every column is missing are dropped
dropna_all(rows) ==
    SelectSeq(rows, LAMBDA r : \E c \in DOMAIN r.cols : ~isna(r.cols[c]))

\* .reset_index(level=[0]).sort_index(): ascending by timestamp
sort_index(rows) == SortSeq(rows, LAMBDA a, b : a.ts < b.ts)

\* the timestamp index of a slice
index(rows) == [k \in 1..Len(rows) |-> rows[k].ts]

column(rows, c) == [k \in 1..Len(rows) |-> rows[k].cols[c]]

(* ------------------------- Sampling Normalizer ------------------------ *)

\* index.to_series().diff(), without its leading NaT
diff(ts) == [k \in 1..(Len(ts) - 1) |-> ts[k + 1] - ts[k]]

DefaultDelta == DefaultSeconds * Second

mindelta_nodefault(ts) ==
    IF Len(ts) < 2 THEN DefaultDelta ELSE Min(Range(diff(ts)))

\* mindelta = diff().min(); 5 seconds when it is zero or NaT
mindelta_of(ts) ==
    IF Len(ts) < 2
    THEN DefaultDelta
    ELSE IF Min(Range(diff(ts))) = 0
         THEN DefaultDelta
         ELSE Min(Range(diff(ts)))

\* meandelta = diff().mean() (truncated to the resolution); mindelta when it
\* is zero or NaT
meandelta_of(ts, mind) ==
    IF Len(ts) < 2
    THEN mind
    ELSE IF Sum(diff(ts)) \div (Len(ts) - 1) = 0
         THEN mind
         ELSE Sum(diff(ts)) \div (Len(ts) - 1)

(* ----------------------------- Gap Imputer ---------------------------- *)

custom_resampler_last(values) ==
    IF Len(values) > 0 THEN values[Len(values)] ELSE NaN

\* custom_resampler: the first value of the bucket, NaN for an empty bucket
custom_resampler(values) ==
    IF Len(values) > 0 THEN values[1] ELSE NaN

\* dfe_orig.resample(meandelta).apply(custom_resampler): buckets
\* [b * period, (b + 1) * period) counted from midnight, from the
\* bucket of the first timestamp to the bucket of the last, labelled by
\* their left edge
resample(rows, period) ==
    IF Len(rows) = 0
    THEN <<>>
    ELSE LET first == rows[1].ts \div period
             last == rows[Len(rows)].ts \div period
         IN  [j \in 1..(last - first + 1) |->
                LET inb == SelectSeq(rows,
                             LAMBDA r : r.ts \div period = first + j - 1)
                IN  Row(rows[1].id, (first + j - 1) * period,
                        [c \in DOMAIN rows[1].cols |->
                            custom_resampler(column(inb, c))])]

gap_frame_inverted(rows) ==
    [k \in 1..Len(rows) |->
        Row(rows[k].id, rows[k].ts,
            [c \in DOMAIN rows[k].cols |->
                IF isna(rows[k].cols[c]) THEN Num(0) ELSE Num(1)])]

\* upsampled_na.where(upsampled_na.isna(), 0).fillna(1)
gap_frame(rows) ==
    [k \in 1..Len(rows) |->
        Row(rows[k].id, rows[k].ts,
            [c \in DOMAIN rows[k].cols |->
                IF isna(rows[k].cols[c]) THEN Num(1) ELSE Num(0)])]

\* dfe.interpolate(method='time') on one column: a missing value between two
\* known ones is interpolated linearly in time, one after the last known
\* value repeats it, one before the first known value stays missing.  The
\* division is exact when the two known values are equal.
interpolate_time(rows, c) ==
    [k \in 1..Len(rows) |->
        IF ~isna(rows[k].cols[c])
        THEN rows[k].cols[c]
        ELSE LET before == {j \in 1..(k - 1) : ~isna(rows[j].cols[c])}
                 after == {j \in (k + 1)..Len(rows) : ~isna(rows[j].cols[c])}
             IN  IF before = {}
                 THEN NaN
                 ELSE IF after = {}
                      THEN rows[Max(before)].cols[c]
                      ELSE LET a == rows[Max(before)]
                               b == rows[Min(after)]
                           IN  Num(a.cols[c].v
                                   + ((b.cols[c].v - a.cols[c].v)
                                        * (rows[k].ts - a.ts))
                                       \div (b.ts - a.ts))]

\* .fillna(0).to_numpy().reshape(-1,)
to_numpy_fillna0(cells) ==
    [k \in 1..Len(cells) |-> IF isna(cells[k]) THEN 0 ELSE cells[k].v]

\* dfe.interpolate(method='time'): every column
interpolate(rows) ==
    [k \in 1..Len(rows) |->
        Row(rows[k].id, rows[k].ts,
            [c \in DOMAIN rows[k].cols |-> interpolate_time(rows, c)[k]])]

(* -------------------------- Feature Extractors ------------------------ *)

spectrogram_segments_no_overlap(n, nperseg, noverlap) == n \div nperseg

\* signal.spectrogram(temperature, nperseg=windowsize, noverlap=windowoverlap):
\* the number of segments, one energy value and one z-score per segment
spectrogram_segments(n, nperseg, noverlap) ==
    (n - noverlap) \div (nperseg - noverlap)

\* skiutil.view_as_windows(temperature, (windowsize,), step): the number of
\* windows, one CBLOF decision score per window
sliding_windows(n, windowsize, step) == ((n - windowsize) \div step) + 1

\* the k-th of the segments of length nperseg cut every nperseg - noverlap
\* samples: the segment times of signal.spectrogram for frame_rate 1,
\* nperseg / 2 + k * (nperseg - noverlap)
spectrogram_times(n, nperseg, noverlap) ==
    [k \in 1..spectrogram_segments(n, nperseg, noverlap) |->
        [n |-> nperseg + 2 * (k - 1) * (nperseg - noverlap), d |-> 2]]

\* skiutil.view_as_windows(temperature, window_shape=(windowsize,), step)
view_as_windows(x, windowsize, step) ==
    [k \in 1..sliding_windows(Len(x), windowsize, step) |->
        [j \in 1..windowsize |-> x[(k - 1) * step + j]]]

\* np.linspace(start, stop, num): num evenly spaced values from start to
\* stop, both included, as fractions over num - 1
linspace(start, stop, num) ==
    [k \in 1..num |->
        [n |-> start * Maximum(num - 1, 1) + (k - 1) * (stop - start),
         d |-> Maximum(num - 1, 1)]]

kmeans_times_true_half(windowsize, n) ==
    [k \in 1..(n - windowsize + 1) |->
        [n |-> windowsize * (n - windowsize)
                 + 2 * (k - 1) * (n - windowsize + 1),
         d |-> 2 * (n - windowsize)]]

\* timesTS = np.linspace(windowsize // 2, size - windowsize // 2 + 1,
\*                       size - windowsize + 1)
kmeans_times(windowsize, n) ==
    linspace(windowsize \div 2, n - (windowsize \div 2) + 1, n - windowsize + 1)

\* the sliding windows the clustering extractor is fitted on; the spectral
\* extractors build none
windows_of(me, x) ==
    IF me.cls = "KMeans" THEN view_as_windows(x, me.windowsize, me.step) ELSE <<>>

\* the positions the feature values of the class are attached to
times_of(me, n) ==
    IF me.cls = "KMeans"
    THEN kmeans_times(me.windowsize, n)
    ELSE spectrogram_times(n, me.windowsize, me.windowoverlap)

\* the number of feature values the extractor of the class yields
num_features(me, n) ==
    IF me.cls = "KMeans"
    THEN sliding_windows(n, me.windowsize, me.step)
    ELSE spectrogram_segments(n, me.windowsize, me.windowoverlap)

should_score_ge(n, windowsize) == n >= windowsize

\* if temperature.size > self.windowsize:
should_score(n, windowsize) == n > windowsize

(* ---------------------------- Score Stretcher ------------------------- *)

\* np.arange(0, n, 1)
arange(n) == [j \in 1..n |-> j - 1]

eval_positions_features(n, m) == arange(m)

\* the positions the interpolant is evaluated at: np.arange(0, temperature.size, 1)
eval_positions(n, m) == arange(n)

\* sp.interpolate.interp1d(timesTS, score, kind='linear',
\* fill_value='extrapolate')(positions): one symbolic value per position
Linear(positions, signal) ==
    [k \in 1..Len(positions) |->
        [kind |-> "score", v |-> positions[k], src |-> signal]]

\* dfe[self.output_item] = zscoreI (pandas requires equal lengths; a shorter
\* array is padded with NaN here so that the operator is total)
assign_column(rows, c, values) ==
    [k \in 1..Len(rows) |->
        Row(rows[k].id, rows[k].ts,
            [x \in DOMAIN rows[k].cols \cup {c} |->
                IF x = c
                THEN (IF k <= Len(values) THEN values[k] ELSE NaN)
                ELSE rows[k].cols[x]])]

(* --------------------------- Realignment Merger ----------------------- *)

nearest_no_tolerance(t, rts, tolerance) ==
    LET back == {k \in 1..Len(rts) : rts[k] <= t}
        fwd == {k \in 1..Len(rts) : rts[k] >= t}
    IN  IF back = {} /\ fwd = {}
        THEN 0
        ELSE IF back = {}
             THEN Min(fwd)
             ELSE IF fwd = {}
                  THEN Max(back)
                  ELSE IF rts[Min(fwd)] - t < t - rts[Max(back)]
                       THEN Min(fwd)
                       ELSE Max(back)

\* direction='nearest', tolerance=mindelta: the position in the right index
\* of the nearest timestamp no further than the tolerance, the earlier one on
\* a tie; 0 when there is none
nearest(t, rts, tolerance) ==
    LET back == {k \in 1..Len(rts) : rts[k] <= t /\ t - rts[k] <= tolerance}
        fwd == {k \in 1..Len(rts) : rts[k] >= t /\ rts[k] - t <= tolerance}
    IN  IF back = {} /\ fwd = {}
        THEN 0
        ELSE IF back = {}
             THEN Min(fwd)
             ELSE IF fwd = {}
                  THEN Max(back)
                  ELSE IF rts[Min(fwd)] - t < t - rts[Max(back)]
                       THEN Min(fwd)
                       ELSE Max(back)

merge_asof_inner(left, right, c, tolerance) ==
    LET hit == SelectSeq(left,
                   LAMBDA r : nearest(r.ts, index(right), tolerance) # 0)
    IN  [k \in 1..Len(hit) |->
            Row(hit[k].id, hit[k].ts,
                [x \in {c \o "_y"} |->
                    right[nearest(hit[k].ts, index(right), tolerance)].cols[c]])]

\* pd.merge_asof(dfe_orig, dfe[c], left_index=True, right_index=True,
\* direction='nearest', tolerance=mindelta): a left join, one row per row of
\* dfe_orig; a column name the two frames share gets the suffixes _x and _y
merge_asof(left, right, c, tolerance) ==
    [k \in 1..Len(left) |->
        LET shared == c \in DOMAIN left[k].cols
            lname(x) == IF x = c THEN c \o "_x" ELSE x
            rname == IF shared THEN c \o "_y" ELSE c
            n == nearest(left[k].ts, index(right), tolerance)
        IN  Row(left[k].id, left[k].ts,
                [x \in {lname(y) : y \in DOMAIN left[k].cols} \cup {rname} |->
                    IF x = rname
                    THEN (IF n = 0 THEN NaN ELSE right[n].cols[c])
                    ELSE left[k].cols[CHOOSE y \in DOMAIN left[k].cols :
                                          lname(y) = x]])]

\* if output_item+'_y' in dfe_orig: ... elif output_item in dfe_orig: ...
\* else: dfe_orig[input_item]
select_score(frame) ==
    IF Len(frame) = 0
    THEN <<>>
    ELSE IF (output_item \o "_y") \in DOMAIN frame[1].cols
         THEN column(frame, output_item \o "_y")
         ELSE IF output_item \in DOMAIN frame[1].cols
              THEN column(frame, output_item)
              ELSE column(frame, input_item)

write_rank(tbl, e, p) ==
    Cardinality({q \in 1..p : tbl[q].id = e})

\* df_copy.loc[idx[entity,:], output_item] = zScoreII: the k-th row of the
\* e in table order gets the k-th value of the array
loc_assign(tbl, e, c, values) ==
    [p \in 1..Len(tbl) |->
        IF tbl[p].id = e /\ write_rank(tbl, e, p) <= Len(values)
        THEN Row(tbl[p].id, tbl[p].ts,
                 [x \in DOMAIN tbl[p].cols |->
                    IF x = c THEN values[write_rank(tbl, e, p)]
                    ELSE tbl[p].cols[x]])
        ELSE tbl[p]]

(* ------------------------------- inputs ------------------------------- *)

Vals == {NaN, Num(1)}

Cols(v) == [c \in {input_item} |-> v]

ShortRows ==
    {Row(e, t * Second, Cols(Num(1))) : e \in Entities, t \in 0..MaxTime}

\* tables over all the entities, rows in any order, keys unique, no value
\* missing
ShortTables ==
    {s \in UNION {[1..n -> ShortRows] : n \in 0..MaxRows} :
        \A j, k \in 1..Len(s) :
            j < k => <<s[j].id, s[j].ts>> # <<s[k].id, s[k].ts>>}

\* tables of one entity over a longer time range, rows in time order, any
\* value missing
WideTables ==
    UNION {{[k \in 1..Cardinality(S) |->
                Row(1, SetToSortedSeq(S)[k] * Second,
                    Cols(f[SetToSortedSeq(S)[k]]))] : f \in [S -> Vals]} :
           S \in {T \in SUBSET (0..MaxWideTime) : Cardinality(T) <= MaxRows}}

Tables == ShortTables \cup WideTables

\* sorted timestamp sequences, equal timestamps allowed
RECURSIVE SortedStamps(_)
SortedStamps(n) ==
    IF n = 0
    THEN {<<>>}
    ELSE LET shorter == SortedStamps(n - 1)
         IN  shorter \cup
             {Append(s, t * Second) :
                s \in {x \in shorter : Len(x) = n - 1},
                t \in 0..MaxStampTime}

Stamps ==
    {s \in SortedStamps(MaxStamps) :
        \A k \in 1..(Len(s) - 1) : s[k] <= s[k + 1]}

MinWinArg == 0 - 2

(* ----------------------------- Entity Driver -------------------------- *)

NoObject == [cls |-> "none"]

Init ==
    /\ pc = "new"
    /\ given = 0
    /\ self = NoObject
    /\ store = [o \in {"df"} |-> <<>>]
    /\ arg = <<>>
    /\ df_copy = "unbound"
    /\ entities = <<>>
    /\ done = 0
    /\ entity = 0
    /\ dfe_orig = <<>>
    /\ dfe = <<>>
    /\ mindelta = 0
    /\ meandelta = 0
    /\ temperature = <<>>
    /\ nfeat = 0
    /\ zscoreI = <<>>
    /\ merged = <<>>
    /\ zScoreII = <<>>
    /\ sizes = <<>>
    /\ slices = <<>>
    /\ timesTS = <<>>

\* cls(input_item, windowsize, output_item)
Construct(cls, windowsize) ==
    /\ pc = "new"
    /\ given' = windowsize
    /\ self' = New(cls, windowsize)
    /\ pc' = "ready"
    /\ UNCHANGED <<store, arg, df_copy, entities, done, locals, sizes>>

ConstructSmall == \E cls \in Classes, w \in 0..MaxWin : Construct(cls, w)

\* execute(self, df) up to the entity loop: the copy, the entities, the
\* output column of the copy set to 0, the sort whose result is dropped
ExecuteBegin ==
    \E df \in Tables :
        /\ pc = "ready"
        /\ arg' = df
        /\ \E c \in {copy([o \in {"df"} |-> df], "df")} :
            /\ df_copy' = c.ref
            /\ entities' = unique_entities(df)
            /\ store' = [c.heap EXCEPT ![c.ref] =
                            sort_index_discarded(
                                SetColumn(@, self.output_item, Num(0)))]
        /\ pc' = "loop"
        /\ done' = 0
        /\ UNCHANGED <<given, self, locals, sizes>>

\* the Gap Imputer of the class, on the slice of the entity
impute(cls, tbl, e) ==
    IF cls = "NoData"
    THEN gap_frame(resample(dfe_orig', meandelta'))
    ELSE interpolate(sort_index(dropna_all(loc(tbl, e))))

\* one iteration of "for entity in entities:"
ScoreEntity(cls) ==
    /\ pc = "loop"
    /\ done < Len(entities)
    /\ self.cls = cls
    /\ done' = done + 1
    /\ entity' = entities[done + 1]
    /\ dfe_orig' = sort_index(loc(store[df_copy], entity'))
    /\ mindelta' = mindelta_of(index(dfe_orig'))
    /\ meandelta' = IF cls = "NoData"
                    THEN meandelta_of(index(dfe_orig'), mindelta')
                    ELSE meandelta
    /\ \E imputed \in {impute(cls, store[df_copy], entity')} :
        /\ temperature' = to_numpy_fillna0(column(imputed, self.input_item))
        /\ sizes' = Append(sizes, Len(temperature'))
        /\ IF should_score(Len(temperature'), self.windowsize)
           THEN /\ slices' = windows_of(self, temperature')
                /\ nfeat' = num_features(self, Len(temperature'))
                /\ timesTS' = times_of(self, Len(temperature'))
                /\ zscoreI' = Linear(eval_positions(Len(temperature'), nfeat'),
                                     temperature')
                /\ dfe' = assign_column(imputed, self.output_item, zscoreI')
                /\ merged' = merge_asof(dfe_orig', dfe', self.output_item,
                                        mindelta')
                /\ zScoreII' = select_score(merged')
                /\ store' = [store EXCEPT ![df_copy] =
                                loc_assign(@, entity', self.output_item,
                                           zScoreII')]
           ELSE /\ dfe' = imputed
                /\ UNCHANGED <<nfeat, zscoreI, merged, zScoreII, store,
                               slices, timesTS>>
    /\ UNCHANGED <<pc, given, self, arg, df_copy, entities>>

NoDataScoreEntity == ScoreEntity("NoData")

SpectralScoreEntity == ScoreEntity("Spectral")

KMeansScoreEntity == ScoreEntity("KMeans")

\* return (df_copy)
ExecuteReturn ==
    /\ pc = "loop"
    /\ done = Len(entities)
    /\ pc' = "done"
    /\ UNCHANGED <<given, self, store, arg, df_copy, entities, done, locals,
                   sizes>>

Next ==
    \/ ConstructSmall
    \/ ExecuteBegin
    \/ NoDataScoreEntity
    \/ SpectralScoreEntity
    \/ KMeansScoreEntity
    \/ ExecuteReturn

Spec == Init /\ [][Next]_vars

\* the constructors over a wide range of windowsize arguments
ConstructAny ==
    \E cls \in Classes, w \in MinWinArg..MaxWinArg : Construct(cls, w)

\* the Sampling Normalizer on one sorted slice, equal timestamps allowed
Normalize ==
    \E ts \in Stamps :
        /\ pc = "new"
        /\ dfe_orig' = [k \in 1..Len(ts) |-> Row(1, ts[k], Cols(Num(1)))]
        /\ mindelta' = mindelta_of(index(dfe_orig'))
        /\ meandelta' = meandelta_of(index(dfe_orig'), mindelta')
        /\ pc' = "normalized"
        /\ UNCHANGED <<given, self, store, arg, df_copy, entities, done, entity, dfe,
                       temperature, nfeat, zscoreI, merged, zScoreII, sizes,
                       slices, timesTS>>

NextParams == ConstructAny \/ Normalize

\* signals of length n: a ramp for the functions that score the input
\* values, an alternation of data and gap for the gap-presence function
signal_of(cls, n) ==
    [j \in 1..n |-> IF cls = "NoData" THEN (j - 1) % 2 ELSE j - 1]

\* the Feature Extractor of the constructed function on one signal that is
\* long enough to be scored
Extract ==
    \E n \in 0..MaxSignal :
        /\ pc = "ready"
        /\ should_score(n, self.windowsize)
        /\ temperature' = signal_of(self.cls, n)
        /\ slices' = windows_of(self, temperature')
        /\ nfeat' = num_features(self, Len(temperature'))
        /\ timesTS' = times_of(self, Len(temperature'))
        /\ pc' = "extracted"
        /\ UNCHANGED <<given, self, store, arg, df_copy, entities, done, entity,
                       dfe_orig, dfe, mindelta, meandelta, zscoreI, merged,
                       zScoreII, sizes>>

NextExtract == ConstructAny \/ Extract

SpecExtract == Init /\ [][NextExtract]_vars

SpecParams == Init /\ [][NextParams]_vars

\* the table object execute returned, and the caller's table
Returned == store[df_copy]

Caller == store["df"]

(* ------------------------------- claims ------------------------------- *)

\* the output cell of row p of table tbl
Out(tbl, p) == tbl[p].cols[self.output_item]

\* the iterations done so far that scored their entity, by loop position
ScoredIterations == {k \in 1..done : sizes[k] > self.windowsize}

\* C1: when execute has returned, every row of an entity whose signal length
\* (temperature.size of its iteration) is at most windowsize has the default
\* 0 in the output column, whatever the other entities were given.
C1_ShortSignalKeepsDefault ==
    pc = "done" =>
        \A k \in 1..Len(entities) :
            sizes[k] <= self.windowsize =>
                \A p \in 1..Len(Returned) :
                    Returned[p].id = entities[k] => Out(Returned, p) = Num(0)

\* C1 witness: a gap-presence run has returned a table in which one entity
\* was too short to score and another one was scored.
C1_Witness ==
    /\ pc = "done"
    /\ self.cls = "NoData"
    /\ \E k \in 1..Len(entities) :
        /\ sizes[k] <= self.windowsize
        /\ \E p \in 1..Len(Returned) : Returned[p].id = entities[k]
    /\ \E k \in 1..Len(entities) : sizes[k] > self.windowsize

\* C2: the caller's table object holds, at every point of the call and after
\* it, exactly the rows, columns and values it held when execute was called.
C2_CallerTableUntouched == store["df"] = arg

\* C2 witness: execute has returned after scoring an entity, and the table
\* it returned differs from the caller's.
C2_Witness ==
    /\ pc = "done"
    /\ ScoredIterations # {}
    /\ Returned # store["df"]
    /\ \E p \in 1..Len(Returned) : Out(Returned, p) # Num(0)

\* the last iteration of the entity loop scored its entity: the locals hold
\* the values of that iteration
LastScored == done >= 1 /\ sizes[done] > self.windowsize

\* the positions of the rows of entity e in table tbl
RowsOf(tbl, e) == {p \in 1..Len(tbl) : tbl[p].id = e}

\* C3: an iteration of the entity loop reads exactly the rows of its entity
\* (the slices dfe_orig and dfe hold rows of that entity only, and dfe_orig
\* holds every one of them) and writes only output cells of rows of that
\* entity: every row of another entity, and every key and every other column
\* of its own rows, is left as it was.
C3_EntityIsolation ==
    [][(pc = "loop" /\ done' = done + 1) =>
         /\ \A k \in 1..Len(dfe_orig') : dfe_orig'[k].id = entity'
         /\ \A k \in 1..Len(dfe') : dfe'[k].id = entity'
         /\ {<<dfe_orig'[k].ts, dfe_orig'[k].cols>> : k \in 1..Len(dfe_orig')}
              = {<<store[df_copy][p].ts, store[df_copy][p].cols>> :
                    p \in RowsOf(store[df_copy], entity')}
         /\ Len(store'[df_copy]) = Len(store[df_copy])
         /\ \A p \in 1..Len(store[df_copy]) :
              /\ store'[df_copy][p].id = store[df_copy][p].id
              /\ store'[df_copy][p].ts = store[df_copy][p].ts
              /\ DOMAIN store'[df_copy][p].cols = DOMAIN store[df_copy][p].cols
              /\ \A c \in DOMAIN store[df_copy][p].cols :
                    (store[df_copy][p].id # entity' \/ c # self.output_item)
                        => store'[df_copy][p].cols[c] = store[df_copy][p].cols[c]
      ]_vars

\* C3 witness: in a table of two entities an iteration has written scores
\* to the rows of its entity while the rows of the other entity are there.
C3_Witness ==
    /\ pc = "loop"
    /\ LastScored
    /\ \E p \in RowsOf(Returned, entity) : Out(Returned, p) # Num(0)
    /\ \E p \in 1..Len(Returned) : Returned[p].id # entity

\* C4: the table keeps its rows: at every point of execute the copy has the
\* keys (entity, timestamp) of the caller's table, position by position; and
\* the merge of a scored entity yields one row and one score per record of
\* the entity's slice, on the slice's own timestamps.
C4_RowsPreserved ==
    /\ pc \in {"loop", "done"} =>
         /\ Len(Returned) = Len(arg)
         /\ \A p \in 1..Len(arg) :
              Returned[p].id = arg[p].id /\ Returned[p].ts = arg[p].ts
    /\ (pc \in {"loop", "done"} /\ LastScored) =>
         /\ Len(zScoreII) = Cardinality(RowsOf(arg, entity))
         /\ Len(merged) = Len(dfe_orig)
         /\ index(merged) = index(dfe_orig)
         /\ {index(dfe_orig)[k] : k \in 1..Len(dfe_orig)}
              = {arg[p].ts : p \in RowsOf(arg, entity)}

\* C4 witness: the gap-presence function has scored an entity whose imputed
\* grid is not its original index, and one record has no grid timestamp
\* within the tolerance.
C4_Witness ==
    /\ pc = "done"
    /\ self.cls = "NoData"
    /\ LastScored
    /\ index(dfe) # index(dfe_orig)
    /\ \E k \in 1..Len(zScoreII) : isna(zScoreII[k])

Dist(a, b) == IF a >= b THEN a - b ELSE b - a

\* the positions of the imputed index within the tolerance of timestamp t
Near(t) == {g \in 1..Len(dfe) : Dist(dfe[g].ts, t) <= mindelta}

\* the record k of the slice got the stretched score of a nearest imputed
\* timestamp within the tolerance
GotNearestScore(k) ==
    \E g \in Near(dfe_orig[k].ts) :
        /\ \A h \in 1..Len(dfe) :
              Dist(dfe[h].ts, dfe_orig[k].ts) >= Dist(dfe[g].ts, dfe_orig[k].ts)
        /\ zScoreII[k] = zscoreI[g]

\* C6 (as claimed): in the merge of a scored entity a record with no imputed
\* timestamp within min_delta gets the raw input value of that record, and a
\* record with one gets the stretched score of the nearest.
C6_MissEchoesRawInput ==
    (pc \in {"loop", "done"} /\ LastScored) =>
        \A k \in 1..Len(dfe_orig) :
            IF Near(dfe_orig[k].ts) = {}
            THEN zScoreII[k] = dfe_orig[k].cols[self.input_item]
            ELSE GotNearestScore(k)

\* C6 (amended): a record with no imputed timestamp within min_delta gets a
\* missing value (NaN), and a record with one gets the stretched score of the
\* nearest; one value per record either way.
C6_MissGivesNaN ==
    (pc \in {"loop", "done"} /\ LastScored) =>
        /\ Len(zScoreII) = Len(dfe_orig)
        /\ \A k \in 1..Len(dfe_orig) :
              IF Near(dfe_orig[k].ts) = {}
              THEN zScoreII[k] = NaN
              ELSE GotNearestScore(k)

\* C6 witness: a scored entity has a record with a known input value and no
\* imputed timestamp within the tolerance, and another record with one.
C6_Witness ==
    /\ pc = "done"
    /\ LastScored
    /\ \E k \in 1..Len(dfe_orig) :
        /\ Near(dfe_orig[k].ts) = {}
        /\ ~isna(dfe_orig[k].cols[self.input_item])
    /\ \E k \in 1..Len(dfe_orig) : Near(dfe_orig[k].ts) # {}

\* the successive differences of the timestamps of the normalized slice
Diffs == diff(index(dfe_orig))

\* the minimum successive difference is zero or undefined
MinZeroOrUndefined ==
    Len(dfe_orig) < 2 \/ \E k \in 1..Len(Diffs) : Diffs[k] = 0

\* the mean successive difference, cut to the resolution, is zero or
\* undefined
MeanZeroOrUndefined ==
    Len(dfe_orig) < 2 \/ Sum(Diffs) < Len(Diffs)

\* the two defaults of the Sampling Normalizer, and the values it keeps
\* otherwise
NormalizerValues ==
    /\ MinZeroOrUndefined => mindelta = DefaultSeconds * Second
    /\ MeanZeroOrUndefined => meandelta = DefaultSeconds * Second
    /\ ~MinZeroOrUndefined =>
         /\ \E k \in 1..Len(Diffs) : mindelta = Diffs[k]
         /\ \A k \in 1..Len(Diffs) : mindelta <= Diffs[k]
    /\ ~MeanZeroOrUndefined =>
         /\ meandelta * Len(Diffs) <= Sum(Diffs)
         /\ Sum(Diffs) < (meandelta + 1) * Len(Diffs)
    /\ mindelta > 0

\* C7 (as claimed): min_delta is 5 seconds when the minimum difference is
\* zero or undefined, mean_delta is 5 seconds when the mean difference is
\* zero or undefined, both are strictly positive, and min_delta never
\* exceeds mean_delta.
C7_MinNeverExceedsMean ==
    pc = "normalized" =>
        /\ NormalizerValues
        /\ meandelta > 0
        /\ mindelta <= meandelta

\* C7 (amended): the two defaults are 5 seconds, both values are strictly
\* positive, and min_delta does not exceed mean_delta when no two successive
\* timestamps are equal or when the mean difference is zero or undefined; a
\* slice with some equal timestamps and a mean difference that is not zero
\* gets min_delta = 5 seconds and mean_delta = the mean difference, whatever
\* their order.
C7_NormalizerDefaults ==
    pc = "normalized" =>
        /\ NormalizerValues
        /\ meandelta > 0
        /\ (~MinZeroOrUndefined \/ MeanZeroOrUndefined) => mindelta <= meandelta
        /\ (MinZeroOrUndefined /\ ~MeanZeroOrUndefined) =>
             /\ mindelta = DefaultSeconds * Second
             /\ meandelta = Sum(Diffs) \div Len(Diffs)

\* C7 witness: a slice with two equal timestamps and a later one got the
\* default min_delta and a smaller mean_delta.
C7_Witness ==
    /\ pc = "normalized"
    /\ MinZeroOrUndefined
    /\ ~MeanZeroOrUndefined
    /\ mindelta = DefaultSeconds * Second
    /\ 0 < meandelta
    /\ meandelta < mindelta

\* C8: the stored windowsize is max(windowsize, 1); where an overlap is
\* derived (the two spectral functions) it is
\* windowsize - max(windowsize // 12, 1) for a stored windowsize above 1 and
\* 0 for 1, so that 0 <= windowoverlap < windowsize; the clustering function
\* derives no overlap and has step 1.
C8_WindowParameters ==
    pc = "ready" =>
        /\ self.windowsize = (IF given >= 1 THEN given ELSE 1)
        /\ self.cls \in {"NoData", "Spectral"} =>
             /\ self.windowsize > 1 =>
                  \E q \in 0..self.windowsize :
                      /\ q * OverlapDivisor <= self.windowsize
                      /\ self.windowsize < (q + 1) * OverlapDivisor
                      /\ self.windowoverlap =
                            self.windowsize - (IF q >= 1 THEN q ELSE 1)
             /\ self.windowsize = 1 => self.windowoverlap = 0
             /\ 0 <= self.windowoverlap
             /\ self.windowoverlap < self.windowsize
        /\ self.cls = "KMeans" =>
             /\ "windowoverlap" \notin DOMAIN self
             /\ self.step = 1

\* C8 witness: a spectral function constructed with a windowsize of two
\* dozens has an overlap two samples short of the window.
C8_Witness ==
    /\ pc = "ready"
    /\ self.cls = "Spectral"
    /\ given = 2 * OverlapDivisor
    /\ self.windowoverlap = given - 2

\* C9: for a scored entity the stretched score has one value per sample of
\* the imputed signal, evaluated at the positions 0 .. n - 1 in this order,
\* whatever the number of features, and it fills the output column of the
\* imputed slice row by row.
C9_StretchLength ==
    (pc \in {"loop", "done"} /\ LastScored) =>
        /\ Len(temperature) = sizes[done]
        /\ Len(zscoreI) = Len(temperature)
        /\ \A k \in 1..Len(zscoreI) :
              /\ zscoreI[k].kind = "score"
              /\ zscoreI[k].v = k - 1
              /\ zscoreI[k].src = temperature
        /\ Len(dfe) = Len(temperature)
        /\ \A k \in 1..Len(dfe) : dfe[k].cols[self.output_item] = zscoreI[k]

\* C9 witness: an entity was scored from fewer features than its signal has
\* samples.
C9_Witness ==
    /\ pc = "done"
    /\ LastScored
    /\ nfeat >= 1
    /\ nfeat < Len(temperature)

\* the positions of the records of the slice that fall in the bucket of the
\* imputed grid starting at t
InBucket(t) ==
    {k \in 1..Len(dfe_orig) : t <= dfe_orig[k].ts /\ dfe_orig[k].ts < t + meandelta}

\* the bucket starting at t has no data: no record, or the first one has no
\* input value
NoData(t) ==
    \/ InBucket(t) = {}
    \/ isna(dfe_orig[Min(InBucket(t))].cols[self.input_item])

\* C10: in the gap-presence function the signal has one entry per bucket of
\* the grid of period mean_delta, counted from midnight, from the bucket of
\* the first record to the bucket of the last; every entry is 0 or 1, and it
\* is 1 exactly when the bucket has no record or its first record has no
\* input value; a bucket that lies wholly between two consecutive records is
\* flagged 1.
C10_PresenceGrid ==
    (pc \in {"loop", "done"} /\ done >= 1 /\ self.cls = "NoData") =>
        /\ Len(temperature) = Len(dfe)
        /\ Len(dfe) >= 1
        /\ \A j \in 1..Len(dfe) :
              /\ dfe[j].ts % meandelta = 0
              /\ j > 1 => dfe[j].ts = dfe[j - 1].ts + meandelta
              /\ temperature[j] \in {0, 1}
              /\ temperature[j] = 1 <=> NoData(dfe[j].ts)
        /\ \A k \in 1..Len(dfe_orig) : \E j \in 1..Len(dfe) : k \in InBucket(dfe[j].ts)
        /\ InBucket(dfe[1].ts) # {}
        /\ InBucket(dfe[Len(dfe)].ts) # {}
        /\ \A k \in 1..(Len(dfe_orig) - 1), j \in 1..Len(dfe) :
              (dfe_orig[k].ts < dfe[j].ts
                 /\ dfe[j].ts + meandelta <= dfe_orig[k + 1].ts)
                  => temperature[j] = 1

\* C10 witness: the signal of an entity has a bucket with data, a bucket
\* without any record, and a bucket whose first record has no input value.
C10_Witness ==
    /\ pc = "done"
    /\ self.cls = "NoData"
    /\ done >= 1
    /\ \E j \in 1..Len(dfe) : temperature[j] = 0
    /\ \E j \in 1..Len(dfe) : temperature[j] = 1 /\ InBucket(dfe[j].ts) = {}
    /\ \E j \in 1..Len(dfe) : temperature[j] = 1 /\ InBucket(dfe[j].ts) # {}

\* a Feature Extractor of class cls was applied alone
Extracted(cls) == pc = "extracted" /\ self.cls = cls

\* fraction a is below fraction b (denominators are positive)
Below(a, b) == a.n * b.d < b.n * a.d

\* the fraction a is the number x / y
IsRatio(a, x, y) == a.n * y = x * a.d

\* the windows and the counts of the clustering extractor: n - w + 1 windows,
\* the i-th (from 0) holding the samples i .. i + w - 1, one score and one
\* centre position per window, the centres strictly increasing
WindowsAndCounts ==
    /\ Len(slices) = Len(temperature) - self.windowsize + 1
    /\ \A k \in 1..Len(slices) :
          /\ Len(slices[k]) = self.windowsize
          /\ \A j \in 1..self.windowsize : slices[k][j] = temperature[k + j - 1]
    /\ nfeat = Len(slices)
    /\ Len(timesTS) = Len(temperature) - self.windowsize + 1
    /\ Len(timesTS) = nfeat
    /\ \A k \in 1..Len(timesTS) : timesTS[k].d > 0
    /\ \A k \in 1..(Len(timesTS) - 1) : Below(timesTS[k], timesTS[k + 1])

SpectralExtracted == Extracted("NoData") \/ Extracted("Spectral")

\* the segments of the spectral extractors: one score and one segment time
\* per segment, floor((n - windowoverlap) / (windowsize - windowoverlap))
\* segments, at least one, each one inside the signal
SegmentCount ==
    /\ Len(timesTS) = nfeat
    /\ nfeat * (self.windowsize - self.windowoverlap)
          <= Len(temperature) - self.windowoverlap
    /\ Len(temperature) - self.windowoverlap
          < (nfeat + 1) * (self.windowsize - self.windowoverlap)
    /\ nfeat >= 1
    /\ (nfeat - 1) * (self.windowsize - self.windowoverlap) + self.windowsize
          <= Len(temperature)

====
